---------------------------- MODULE Spec2Model ----------------------------
(***************************************************************************)
(* Retrieval-augmented question answering over a PGVector collection:      *)
(* the query path (chat.py -> search.py -> retriever.py / responder.py)    *)
(* and the ingestion path (ingest.py).                                     *)
(*                                                                         *)
(* A Python str is a sequence of characters, each character a one-letter   *)
(* TLA+ string.  A string literal of the program that is only ever         *)
(* returned or compared as a whole (a fixed message, the "[Documento"      *)
(* label) is held as one unsplit, non-blank token.  A Python value is a    *)
(* record [type, val].  A call's outcome is a record whose exc field is    *)
(* the raised exception's type ("" when the call returns).                 *)
(*                                                                         *)
(* The embedding service, the vector store and the chat model are external *)
(* services: what they answer is drawn from bounded sets.                  *)
(***************************************************************************)
EXTENDS Integers, Sequences, FiniteSets, TLC

\* ------------------------------------------------------------------ bounds
\* longest question / input line built freely from Chars
MaxLen == 2
\* most documents the similarity search hands back
MaxHits == 2
\* most chunks one PDF is split into (11 reaches the two-digit id doc-10)
MaxUnits == 11
\* most successful ingestion runs into the collection
MaxRuns == 2

\* ------------------------------------------------------- Python values
PyNone == [type |-> "NoneType", val |-> <<>>]

PyStr(s) == [type |-> "str", val |-> s]

\* Python truthiness of None / str: `not value`
Falsy(v) == v.type = "NoneType" \/ v.val = <<>>

\* str.isspace characters that occur in the model
Whitespace == {" ", "\t", "\n"}

RECURSIVE LStrip(_)
LStrip(s) ==
    IF s # <<>> /\ Head(s) \in Whitespace THEN LStrip(Tail(s)) ELSE s

RECURSIVE RStrip(_)
RStrip(s) ==
    IF s # <<>> /\ s[Len(s)] \in Whitespace
    THEN RStrip(SubSeq(s, 1, Len(s) - 1))
    ELSE s

\* str.strip()
Strip(s) == RStrip(LStrip(s))

UpperChars == <<"A", "C", "E", "F", "H", "I", "L", "O", "R", "S", "T", "X">>

LowerChars == <<"a", "c", "e", "f", "h", "i", "l", "o", "r", "s", "t", "x">>

LowerChar(c) ==
    IF \E i \in 1..Len(UpperChars) : UpperChars[i] = c
    THEN LowerChars[CHOOSE i \in 1..Len(UpperChars) : UpperChars[i] = c]
    ELSE c

\* str.lower()
Lower(s) == [i \in 1..Len(s) |-> LowerChar(s[i])]

Digits == <<"0", "1", "2", "3", "4", "5", "6", "7", "8", "9">>

\* str(i) / f"{i}" for a non-negative int: its decimal digits, as one TLA+ string
RECURSIVE DecStr(_)
DecStr(i) ==
    IF i < 10 THEN Digits[i + 1]
    ELSE DecStr(i \div 10) \o Digits[(i % 10) + 1]

\* sep.join(parts)
RECURSIVE Join(_, _)
Join(parts, sep) ==
    IF parts = <<>> THEN <<>>
    ELSE IF Len(parts) = 1 THEN parts[1]
    ELSE parts[1] \o sep \o Join(Tail(parts), sep)

\* all sequences over S of length at most n
SeqsUpTo(S, n) == UNION {[1..k -> S] : k \in 0..n}

Contains(seq, x) == \E i \in 1..Len(seq) : seq[i] = x

\* ------------------------------------------------------ fixed messages
MSG_INVALID_QUESTION == <<"Por favor, forneça uma pergunta válida.">>

MSG_NO_CONTEXT == <<"Não encontrei informações suficientes para responder sua pergunta.">>

MSG_CANNOT_PROCESS == <<"Não foi possível processar a pergunta no momento.">>

\* the refusal the prompt template asks the chat model to give
MSG_REFUSAL == <<"Não tenho informações necessárias para responder sua pergunta.">>

\* retrieve_context's default k
K_DEFAULT == 10

\* --------------------------------------------------------- input domains
Chars == {"A", " "}

Questions == SeqsUpTo(Chars, MaxLen)

exit_tokens == {<<"f", "e", "c", "h", "a", "r">>, <<"e", "x", "i", "t">>,
                <<"c", "l", "o", "s", "e">>}

\* what the user may type: any short line, and lines around the exit tokens
Lines ==
    Questions \cup
    {<<"e", "x", "i", "t">>, <<" ", "E", "x", "i", "t", " ">>,
     <<"F", "E", "C", "H", "A", "R">>, <<"c", "l", "o", "s", "e", "\n">>,
     <<"e", "x", "i", "t", "s">>}

\* page_content of the rows the store may hand back
DocContents == {<<"a">>, <<" ", "a", "\n">>, <<" ">>}

Document(c) == [page_content |-> c]

\* the similarity search's outcome: it raises, or finds these documents
Stores ==
    {[fail |-> TRUE, hits |-> <<>>]} \cup
    {[fail |-> FALSE, hits |-> h] :
        h \in SeqsUpTo({Document(c) : c \in DocContents}, MaxHits)}

\* the chat model's outcome: it raises, or answers with this content
LLMs ==
    {[fail |-> TRUE, content |-> <<>>]} \cup
    {[fail |-> FALSE, content |-> c] :
        c \in {<<"a">>, <<" ", "a", "\n">>, MSG_REFUSAL}}

\* the query-time environment: the two variables build_rag_chain reads, and
\* whether constructing the PGVector / ChatOpenAI clients raises
Envs ==
    {[collection |-> PyStr(<<"c">>), url |-> PyStr(<<"u">>), ctor_fails |-> FALSE],
     [collection |-> PyNone, url |-> PyStr(<<"u">>), ctor_fails |-> FALSE],
     [collection |-> PyStr(<<"c">>), url |-> PyStr(<<>>), ctor_fails |-> FALSE],
     [collection |-> PyStr(<<"c">>), url |-> PyStr(<<"u">>), ctor_fails |-> TRUE]}

VARIABLES
    env,       \* the query-time environment (see Envs)
    store,     \* what the similarity search does when called (see Stores)
    llm,       \* what the chat model does when called (see LLMs)
    session,   \* the chat loop: "open" or "closed"
    typed,     \* the line input() read in the last operation, <<>> if none
    op,        \* the entry point last called
    question,  \* the question the entry point received
    trace,     \* the calls made inside the last operation, in order
    results,   \* what retrieve returned in the last operation
    context,   \* what retrieve_context returned in the last operation
    ret,       \* what the entry point returned or raised
    rows,      \* the collection: id -> document
    runs,      \* history: the successful ingestion runs, oldest first
    steps,     \* the pipeline steps the last ingestion run called, in order
    error,     \* the exception the last ingestion run raised, type "" if none
    handed,    \* the ids and documents the last run passed to add_documents
    inputs     \* what the last run's configuration, loader and splitter gave

qvars == <<env, store, llm, session, typed, op, question, trace, results, context, ret>>

ivars == <<rows, runs, steps, error, handed, inputs>>

vars == <<env, store, llm, session, typed, op, question, trace, results, context, ret,
          rows, runs, steps, error, handed, inputs>>

\* ------------------------------------------------------------ retriever
\* PGVector.similarity_search_with_score(question, k): at most k documents
similarity_search_with_score(st, q, k) ==
    [exc |-> IF st.fail THEN "Exception" ELSE "",
     val |-> IF st.fail THEN <<>>
             ELSE SubSeq(st.hits, 1, IF Len(st.hits) < k THEN Len(st.hits) ELSE k)]

\* retrieve without its try/except
retrieve_Propagates(st, q, k) ==
    IF q = <<>>
    THEN [exc |-> "ValueError", val |-> <<>>, trace |-> <<>>]
    ELSE LET r == similarity_search_with_score(st, q, k)
         IN  [exc |-> r.exc, val |-> r.val,
              trace |-> <<"similarity_search_with_score">>]

\* PostgresVectorRetriever.retrieve
retrieve(st, q, k) ==
    IF q = <<>>
    THEN [exc |-> "ValueError", val |-> <<>>, trace |-> <<>>]
    ELSE LET r == similarity_search_with_score(st, q, k)
         IN  [exc |-> "",
              val |-> IF r.exc # "" THEN <<>> ELSE r.val,
              trace |-> <<"similarity_search_with_score">>]

\* f"[Documento {i+1}] {doc.page_content.strip()}" for the i-th result (0-based)
context_part(i, doc) ==
    <<"[Documento", " ", DecStr(i + 1), "]", " ">> \o Strip(doc.page_content)

\* retrieve_context numbering its entries from 2
retrieve_context_OffByOne(st, q, k) ==
    LET r == retrieve(st, q, k)
    IN  IF r.exc # ""
        THEN [exc |-> r.exc, val |-> <<>>, results |-> <<>>,
              trace |-> <<"retrieve">> \o r.trace]
        ELSE [exc |-> "",
              val |-> IF r.val = <<>> THEN <<>>
                      ELSE Join([j \in 1..Len(r.val) |-> context_part(j, r.val[j])],
                                <<"\n", "\n">>),
              results |-> r.val,
              trace |-> <<"retrieve">> \o r.trace]

\* PostgresVectorRetriever.retrieve_context
retrieve_context(st, q, k) ==
    LET r == retrieve(st, q, k)
    IN  IF r.exc # ""
        THEN [exc |-> r.exc, val |-> <<>>, results |-> <<>>,
              trace |-> <<"retrieve">> \o r.trace]
        ELSE [exc |-> "",
              val |-> IF r.val = <<>> THEN <<>>
                      ELSE Join([j \in 1..Len(r.val) |-> context_part(j - 1, r.val[j])],
                                <<"\n", "\n">>),
              results |-> r.val,
              trace |-> <<"retrieve">> \o r.trace]

\* ------------------------------------------------------------ responder
\* ContextualLLMResponder.generate_answer: the except branch falls off the
\* end of the function, so the call returns None
generate_answer(lm, ctx, q) ==
    [exc |-> "",
     val |-> IF lm.fail THEN PyNone ELSE PyStr(Strip(lm.content)),
     trace |-> <<"generate_answer">>]

\* ---------------------------------------------------------------- chain
\* answer_question without its validation of the question
answer_question_NoValidate(st, lm, q) ==
    LET c == retrieve_context(st, q, K_DEFAULT)
    IN  IF c.exc # ""
        THEN [exc |-> c.exc, val |-> PyNone, results |-> c.results,
              context |-> c.val, trace |-> <<"retrieve_context">> \o c.trace]
        ELSE IF Strip(c.val) = <<>>
        THEN [exc |-> "", val |-> PyStr(MSG_NO_CONTEXT), results |-> c.results,
              context |-> c.val, trace |-> <<"retrieve_context">> \o c.trace]
        ELSE LET g == generate_answer(lm, c.val, q)
             IN  [exc |-> g.exc, val |-> g.val, results |-> c.results,
                  context |-> c.val,
                  trace |-> <<"retrieve_context">> \o c.trace \o g.trace]

\* answer_question without its test of the context
answer_question_NoGate(st, lm, q) ==
    IF q = <<>> \/ Strip(q) = <<>>
    THEN [exc |-> "", val |-> PyStr(MSG_INVALID_QUESTION), results |-> <<>>,
          context |-> <<>>, trace |-> <<>>]
    ELSE LET c == retrieve_context(st, q, K_DEFAULT)
             g == generate_answer(lm, c.val, q)
         IN  IF c.exc # ""
             THEN [exc |-> c.exc, val |-> PyNone, results |-> c.results,
                   context |-> c.val, trace |-> <<"retrieve_context">> \o c.trace]
             ELSE [exc |-> g.exc, val |-> g.val, results |-> c.results,
                   context |-> c.val,
                   trace |-> <<"retrieve_context">> \o c.trace \o g.trace]

\* QuestionAnsweringChain.answer_question
answer_question(st, lm, q) ==
    IF q = <<>> \/ Strip(q) = <<>>
    THEN [exc |-> "", val |-> PyStr(MSG_INVALID_QUESTION), results |-> <<>>,
          context |-> <<>>, trace |-> <<>>]
    ELSE LET c == retrieve_context(st, q, K_DEFAULT)
         IN  IF c.exc # ""
             THEN [exc |-> c.exc, val |-> PyNone, results |-> c.results,
                   context |-> c.val, trace |-> <<"retrieve_context">> \o c.trace]
             ELSE IF Strip(c.val) = <<>>
             THEN [exc |-> "", val |-> PyStr(MSG_NO_CONTEXT), results |-> c.results,
                   context |-> c.val, trace |-> <<"retrieve_context">> \o c.trace]
             ELSE LET g == generate_answer(lm, c.val, q)
                  IN  [exc |-> g.exc, val |-> g.val, results |-> c.results,
                       context |-> c.val,
                       trace |-> <<"retrieve_context">> \o c.trace \o g.trace]

\* build_rag_chain: "" when the chain is built, else the exception raised
build_rag_chain(e) ==
    IF Falsy(e.collection) \/ Falsy(e.url) THEN "ValueError"
    ELSE IF e.ctor_fails THEN "Exception"
    ELSE ""

\* search_prompt
search_prompt(e, st, lm, q) ==
    LET failed == [exc |-> "", val |-> PyStr(MSG_CANNOT_PROCESS), results |-> <<>>,
                   context |-> <<>>, trace |-> <<"build_rag_chain">>]
    IN  IF build_rag_chain(e) # "" THEN failed
        ELSE LET a == answer_question(st, lm, q)
             IN  IF a.exc # ""
                 THEN [failed EXCEPT !.results = a.results, !.context = a.context,
                                     !.trace = <<"build_rag_chain", "answer_question">>
                                               \o a.trace]
                 ELSE [a EXCEPT !.trace = <<"build_rag_chain", "answer_question">>
                                          \o a.trace]

\* ------------------------------------------------------------- actions
Record(name, q, r) ==
    /\ op' = name
    /\ question' = q
    /\ trace' = r.trace
    /\ results' = r.results
    /\ context' = r.context
    /\ ret' = [exc |-> r.exc, val |-> r.val]

\* chat.main: one turn of the while loop
main ==
    /\ session = "open"
    /\ \E l \in Lines :
         LET mensagem == Lower(Strip(l))
         IN  /\ typed' = l
             /\ IF mensagem \in exit_tokens
                THEN /\ session' = "closed"
                     /\ op' = "main"
                     /\ question' = <<>>
                     /\ trace' = <<>>
                     /\ results' = <<>>
                     /\ context' = <<>>
                     /\ ret' = [exc |-> "", val |-> PyNone]
                ELSE /\ session' = session
                     /\ LET r == search_prompt(env, store, llm, mensagem)
                        IN  Record("main", mensagem,
                                   [r EXCEPT !.trace = <<"search_prompt">> \o r.trace])
    /\ UNCHANGED <<env, store, llm>>
    /\ UNCHANGED ivars

\* a caller other than the chat loop (an API, a chatbot) calls search_prompt
CallSearchPrompt ==
    /\ \E q \in Questions : Record("search_prompt", q, search_prompt(env, store, llm, q))
    /\ typed' = <<>>
    /\ UNCHANGED <<env, store, llm, session>>
    /\ UNCHANGED ivars

\* a caller holding a built chain calls answer_question
CallAnswerQuestion ==
    /\ \E q \in Questions : Record("answer_question", q, answer_question(store, llm, q))
    /\ typed' = <<>>
    /\ UNCHANGED <<env, store, llm, session>>
    /\ UNCHANGED ivars

\* a caller holding a retriever calls retrieve_context
CallRetrieveContext ==
    /\ \E q \in Questions :
         LET c == retrieve_context(store, q, K_DEFAULT)
         IN  Record("retrieve_context", q,
                    [exc |-> c.exc, val |-> PyStr(c.val), results |-> c.results,
                     context |-> c.val, trace |-> c.trace])
    /\ typed' = <<>>
    /\ UNCHANGED <<env, store, llm, session>>
    /\ UNCHANGED ivars

\* ------------------------------------------------------------ ingestion
REQUIRED_ENV_VARS == <<"PDF_PATH", "DATABASE_URL", "PG_VECTOR_COLLECTION_NAME">>

\* os.getenv of a required variable: unset, set to "", or set
Environs ==
    [{REQUIRED_ENV_VARS[i] : i \in 1..Len(REQUIRED_ENV_VARS)}
        -> {PyNone, PyStr(<<>>), PyStr(<<"x">>)}]

PdfTexts == {"p", "q"}

\* what PyPDFLoader.load and the splitter make of the file at PDF_PATH: the
\* load raises, or yields `pages` pages that split into `units` chunks
Files ==
    {[raises |-> TRUE, pages |-> 0, text |-> "p", units |-> 0],
     [raises |-> FALSE, pages |-> 0, text |-> "p", units |-> 0]} \cup
    {[raises |-> FALSE, pages |-> 3, text |-> t, units |-> n] :
        t \in PdfTexts, n \in 0..MaxUnits}

\* the metadata every chunk inherits from its page
page_metadata ==
    {<<"source", PyStr(<<"x">>)>>, <<"producer", PyStr(<<>>)>>, <<"title", PyNone>>}

\* RecursiveCharacterTextSplitter.split_documents: the i-th chunk (0-based)
\* of the file's text
split_documents(f) ==
    [i \in 1..f.units |->
        [page_content |-> <<f.text, i - 1>>, metadata |-> page_metadata]]

\* validate_env looking at PDF_PATH only
validate_env_FirstOnly(e) ==
    IF Falsy(e[REQUIRED_ENV_VARS[1]])
    THEN [exc |-> "EnvironmentError", var |-> REQUIRED_ENV_VARS[1]]
    ELSE [exc |-> "", var |-> ""]

\* validate_env: raises on the first required variable that is unset or empty
validate_env(e) ==
    LET bad == {i \in 1..Len(REQUIRED_ENV_VARS) : Falsy(e[REQUIRED_ENV_VARS[i]])}
    IN  IF bad = {} THEN [exc |-> "", var |-> ""]
        ELSE [exc |-> "EnvironmentError",
              var |-> REQUIRED_ENV_VARS[CHOOSE i \in bad : \A j \in bad : i <= j]]

\* the metadata filter of load_and_split_pdf: v not in ("", None)
enrich(d) ==
    [page_content |-> d.page_content,
     metadata |-> {kv \in d.metadata : ~Falsy(kv[2])}]

\* load_and_split_pdf without its `if not splits` test
load_and_split_pdf_NoChunkCheck(f) ==
    IF f.raises
    THEN [exc |-> "Exception", msg |-> "load", val |-> <<>>,
          steps |-> <<"load">>, loader |-> "raised", splitter |-> "not called"]
    ELSE IF f.pages = 0
    THEN [exc |-> "ValueError", msg |-> "No pages found in PDF", val |-> <<>>,
          steps |-> <<"load">>, loader |-> "empty", splitter |-> "not called"]
    ELSE LET splits == split_documents(f)
         IN  [exc |-> "", msg |-> "",
              val |-> [i \in 1..Len(splits) |-> enrich(splits[i])],
              steps |-> <<"load", "split_documents">>, loader |-> "pages",
              splitter |-> IF splits = <<>> THEN "empty" ELSE "chunks"]

\* load_and_split_pdf
load_and_split_pdf(f) ==
    IF f.raises
    THEN [exc |-> "Exception", msg |-> "load", val |-> <<>>,
          steps |-> <<"load">>, loader |-> "raised", splitter |-> "not called"]
    ELSE IF f.pages = 0
    THEN [exc |-> "ValueError", msg |-> "No pages found in PDF", val |-> <<>>,
          steps |-> <<"load">>, loader |-> "empty", splitter |-> "not called"]
    ELSE LET splits == split_documents(f)
         IN  IF splits = <<>>
             THEN [exc |-> "ValueError",
                   msg |-> "No text chunks were created from the PDF.",
                   val |-> <<>>, steps |-> <<"load", "split_documents">>,
                   loader |-> "pages", splitter |-> "empty"]
             ELSE [exc |-> "", msg |-> "",
                   val |-> [i \in 1..Len(splits) |-> enrich(splits[i])],
                   steps |-> <<"load", "split_documents">>,
                   loader |-> "pages", splitter |-> "chunks"]

\* ids numbered from 1
doc_ids_OneBased(docs) == [i \in 1..Len(docs) |-> "doc-" \o DecStr(i)]

\* ids keeping only the last digit of the index
doc_ids_LastDigit(docs) == [i \in 1..Len(docs) |-> "doc-" \o Digits[((i - 1) % 10) + 1]]

\* ids = [f"doc-{i}" for i in range(len(docs))]
doc_ids(docs) == [i \in 1..Len(docs) |-> "doc-" \o DecStr(i - 1)]

\* PGVector.add_documents(documents, ids): one row per id, a row whose id is
\* already in the collection is overwritten
add_documents(coll, docs, ids) ==
    LET new == {ids[i] : i \in 1..Len(ids)}
        last(k) == CHOOSE i \in 1..Len(ids) :
                      ids[i] = k /\ \A j \in 1..Len(ids) : ids[j] = k => j <= i
    IN  [k \in (DOMAIN coll) \cup new |->
            IF k \in new THEN docs[last(k)] ELSE coll[k]]

\* store_documents
store_documents(coll, docs) ==
    LET ids == doc_ids(docs)
    IN  [rows |-> add_documents(coll, docs, ids), ids |-> ids, docs |-> docs]

NotHanded == [ids |-> <<>>, docs |-> <<>>]

\* ingest_pdf: one run of the pipeline, from validate_env to store_documents
ingest_pdf ==
    /\ Len(runs) < MaxRuns
    /\ \E e \in Environs :
         LET v == validate_env(e)
             missing == \E i \in 1..Len(REQUIRED_ENV_VARS) : Falsy(e[REQUIRED_ENV_VARS[i]])
         IN  IF v.exc # ""
             THEN /\ error' = [type |-> v.exc, msg |-> v.var]
                  /\ steps' = <<"validate_env">>
                  /\ inputs' = [cfg_missing |-> missing, loader |-> "not called",
                                splitter |-> "not called"]
                  /\ handed' = NotHanded
                  /\ UNCHANGED <<rows, runs>>
             ELSE \E f \in Files :
                    LET l == load_and_split_pdf(f)
                    IN  /\ inputs' = [cfg_missing |-> missing, loader |-> l.loader,
                                      splitter |-> l.splitter]
                        /\ IF l.exc # ""
                           THEN /\ error' = [type |-> l.exc, msg |-> l.msg]
                                /\ steps' = <<"validate_env">> \o l.steps
                                /\ handed' = NotHanded
                                /\ UNCHANGED <<rows, runs>>
                           ELSE LET s == store_documents(rows, l.val)
                                IN  /\ error' = [type |-> "", msg |-> ""]
                                    /\ steps' = <<"validate_env">> \o l.steps
                                                \o <<"add_documents">>
                                    /\ handed' = [ids |-> s.ids, docs |-> s.docs]
                                    /\ rows' = s.rows
                                    /\ runs' = Append(runs, [text |-> f.text,
                                                             units |-> f.units])
    /\ UNCHANGED qvars

InitQueryIdle ==
    /\ session = "open"
    /\ typed = <<>>
    /\ op = "none"
    /\ question = <<>>
    /\ trace = <<>>
    /\ results = <<>>
    /\ context = <<>>
    /\ ret = [exc |-> "", val |-> PyNone]

InitIngestIdle ==
    /\ rows = <<>>
    /\ runs = <<>>
    /\ steps = <<>>
    /\ error = [type |-> "", msg |-> ""]
    /\ handed = NotHanded
    /\ inputs = [cfg_missing |-> FALSE, loader |-> "not called", splitter |-> "not called"]

Init ==
    /\ env \in Envs
    /\ store \in Stores
    /\ llm \in LLMs
    /\ InitQueryIdle
    /\ InitIngestIdle

Next == main \/ CallSearchPrompt \/ CallAnswerQuestion \/ CallRetrieveContext

Spec == Init /\ [][Next]_vars

\* the ingestion script alone, against an initially empty collection
InitIngest ==
    /\ env = [collection |-> PyStr(<<"c">>), url |-> PyStr(<<"u">>), ctor_fails |-> FALSE]
    /\ store = [fail |-> FALSE, hits |-> <<>>]
    /\ llm = [fail |-> TRUE, content |-> <<>>]
    /\ InitQueryIdle
    /\ InitIngestIdle

NextIngest == ingest_pdf

SpecIngest == InitIngest /\ [][NextIngest]_vars

\* ---------------------------------------------------------- properties
\* answer_question ran in the last operation, called directly or through
\* search_prompt
AnswerQuestionRan == op = "answer_question" \/ Contains(trace, "answer_question")

\* position of the first call of `name` in the trace, 0 when it was not called
FirstCall(name) ==
    IF Contains(trace, name)
    THEN CHOOSE i \in 1..Len(trace) :
            trace[i] = name /\ \A j \in 1..(i - 1) : trace[j] # name
    ELSE 0

\* C1: for an empty or whitespace-only question, answer_question returns
\* exactly the invalid-question message and calls neither retrieve_context
\* nor generate_answer.
C1_BlankQuestionRejected ==
    (AnswerQuestionRan /\ Strip(question) = <<>>) =>
        /\ ret = [exc |-> "", val |-> PyStr(MSG_INVALID_QUESTION)]
        /\ ~Contains(trace, "retrieve_context")
        /\ ~Contains(trace, "retrieve")
        /\ ~Contains(trace, "generate_answer")

\* a whitespace-only question reached answer_question while the store had
\* documents to give and the chat model was up
C1_Witness ==
    /\ op = "answer_question"
    /\ question = <<" ">>
    /\ ~store.fail /\ store.hits # <<>>
    /\ ~llm.fail
    /\ ret.val = PyStr(MSG_INVALID_QUESTION)

\* C2: for a non-blank question whose retrieved context is blank,
\* answer_question returns exactly the insufficient-information message and
\* never calls generate_answer; generate_answer is called only after
\* retrieve_context, in the same call, returned a non-blank context.
C2_GroundingGate ==
    /\ (AnswerQuestionRan /\ Strip(question) # <<>> /\ Strip(context) = <<>>) =>
          /\ Contains(trace, "retrieve_context")
          /\ ret = [exc |-> "", val |-> PyStr(MSG_NO_CONTEXT)]
          /\ ~Contains(trace, "generate_answer")
    /\ Contains(trace, "generate_answer") =>
          /\ 0 < FirstCall("retrieve_context")
          /\ FirstCall("retrieve_context") < FirstCall("generate_answer")
          /\ Strip(context) # <<>>

\* the store found nothing for a real question while the chat model was up
C2_Witness ==
    /\ op = "answer_question"
    /\ question = <<"A">>
    /\ ~store.fail /\ store.hits = <<>>
    /\ ~llm.fail
    /\ ret.val = PyStr(MSG_NO_CONTEXT)

\* C3: whatever fails at query time, search_prompt / answer_question hands
\* the chat loop a string, never an absent value or an exception; a failure
\* of the generation service yields a fixed failure message that is neither
\* the grounding refusal nor the insufficient-information message.
C3_AlwaysAString ==
    (AnswerQuestionRan \/ Contains(trace, "build_rag_chain")) =>
        /\ ret.exc = ""
        /\ ret.val.type = "str"
        /\ (llm.fail /\ Contains(trace, "generate_answer")) =>
              /\ ret.val.val = MSG_CANNOT_PROCESS
              /\ ret.val.val # MSG_REFUSAL
              /\ ret.val.val # MSG_NO_CONTEXT

\* C4: when the similarity search fails for a non-empty question, retrieve
\* returns an empty result without raising, retrieve_context returns the
\* empty string and answer_question returns the insufficient-information
\* message; no exception reaches the caller.
C4_RetrievalFailsClosed ==
    (store.fail /\ Contains(trace, "similarity_search_with_score")) =>
        /\ question # <<>>
        /\ ret.exc = ""
        /\ results = <<>>
        /\ context = <<>>
        /\ op = "retrieve_context" => ret.val = PyStr(<<>>)
        /\ AnswerQuestionRan => ret.val = PyStr(MSG_NO_CONTEXT)

\* the similarity search raised inside a direct answer_question call
C4_Witness ==
    /\ op = "answer_question"
    /\ store.fail
    /\ Contains(trace, "similarity_search_with_score")
    /\ ret.val = PyStr(MSG_NO_CONTEXT)

\* the run of the pipeline that last ended handed documents to the store
Stored == Contains(steps, "add_documents")

\* C5: a run that produces n >= 1 units hands the store the ids
\* doc-0 .. doc-{n-1}, pairwise distinct, the i-th produced unit (0-based)
\* under doc-{i}.
C5_IdsContiguous ==
    Stored =>
        LET n == Len(handed.docs)
        IN  /\ n >= 1
            /\ n = runs[Len(runs)].units
            /\ Len(handed.ids) = n
            /\ \A i \in 1..n :
                  /\ handed.ids[i] = "doc-" \o ToString(i - 1)
                  /\ handed.docs[i].page_content = <<runs[Len(runs)].text, i - 1>>
            /\ \A i, j \in 1..n : i # j => handed.ids[i] # handed.ids[j]

\* a run whose ids reach two digits
C5_Witness == Stored /\ Len(handed.ids) >= 11 /\ handed.ids[11] = "doc-10"

\* C6: when a required configuration value is missing, the run raises the
\* configuration error before any other step: neither the loader, nor the
\* splitter, nor the store is called.
C6_ConfigFirst ==
    inputs.cfg_missing =>
        /\ error.type = "EnvironmentError"
        /\ steps = <<"validate_env">>
        /\ inputs.loader = "not called"
        /\ inputs.splitter = "not called"
        /\ handed = NotHanded

\* only the last required variable is missing, the collection already holds rows
C6_Witness ==
    /\ inputs.cfg_missing
    /\ error = [type |-> "EnvironmentError", msg |-> "PG_VECTOR_COLLECTION_NAME"]
    /\ rows # <<>>

\* C7: a run in which configuration validation fails, the document has no
\* pages or splitting yields no unit ends in an error, never reaches the
\* store and leaves the collection's rows as they were.
C7_NoPartialCommit ==
    [][(inputs'.cfg_missing \/ inputs'.loader = "empty" \/ inputs'.splitter = "empty") =>
          /\ error'.type # ""
          /\ ~Contains(steps', "add_documents")
          /\ rows' = rows
          /\ runs' = runs]_vars

\* splitting yielded nothing in a run against a collection that holds rows
C7_Witness ==
    /\ inputs.splitter = "empty"
    /\ error.type = "ValueError"
    /\ rows # <<>>

\* C8: every line that is not an exit token is forwarded verbatim (the
\* question equals the typed line); an exit token closes the session and
\* forwards nothing.
C8_ForwardedVerbatim ==
    op = "main" =>
        IF Lower(Strip(typed)) \in exit_tokens
        THEN session = "closed" /\ ~Contains(trace, "search_prompt")
        ELSE Contains(trace, "search_prompt") /\ question = typed

\* what the labelled context of a retrieval result is, each entry carrying
\* f(page_content)
Labelled(res, f(_)) ==
    Join([j \in 1..Len(res) |->
            <<"[Documento", " ", ToString(j), "]", " ">> \o f(res[j].page_content)],
         <<"\n", "\n">>)

Verbatim(c) == c

\* C9 as stated: retrieve_context returns "" exactly when retrieve returns
\* nothing; otherwise entry j carries ordinal j and the content of the j-th
\* result, in the result's order and number.
C9_EntriesCarryContent ==
    (op = "retrieve_context" /\ ret.exc = "") =>
        /\ ret.val = PyStr(context)
        /\ (context = <<>>) <=> (results = <<>>)
        /\ results # <<>> => context = Labelled(results, Verbatim)

\* C9 amended: as above, entry j carrying the j-th result's content with its
\* leading and trailing whitespace removed.
C9_EntriesCarryStrippedContent ==
    (op = "retrieve_context" /\ ret.exc = "") =>
        /\ ret.val = PyStr(context)
        /\ (context = <<>>) <=> (results = <<>>)
        /\ results # <<>> => context = Labelled(results, Strip)

\* two different documents came back, the first with whitespace around it
C9_Witness ==
    /\ op = "retrieve_context"
    /\ ret.exc = ""
    /\ Len(results) = 2
    /\ results[1].page_content = <<" ", "a", "\n">>
    /\ results[2].page_content = <<" ">>

\* the run (1-based position in h) whose content row i holds: the most
\* recent one that produced more than i units
Owner(h, i) ==
    CHOOSE j \in 1..Len(h) :
        h[j].units > i /\ \A l \in (j + 1)..Len(h) : h[l].units <= i

Longest(h) ==
    IF h = <<>> THEN 0
    ELSE CHOOSE m \in {h[j].units : j \in 1..Len(h)} :
            \A j \in 1..Len(h) : h[j].units <= m

\* the collection holds exactly what the successful runs h leave behind
HoldsRunsOf(coll, h) ==
    /\ DOMAIN coll = {"doc-" \o ToString(i) : i \in 0..(Longest(h) - 1)}
    /\ \A i \in 0..(Longest(h) - 1) :
          coll["doc-" \o ToString(i)].page_content = <<h[Owner(h, i)].text, i>>

\* C10: after successful runs producing n_1 .. n_r units the collection
\* holds exactly doc-0 .. doc-{max n - 1}, row doc-{i} with the content of
\* the most recent run with n_j > i (a shorter later run leaves the longer
\* run's tail as stale rows), and running the same ingestion twice leaves
\* what running it once leaves.
C10_OverwriteAndStale ==
    /\ HoldsRunsOf(rows, runs)
    /\ (Len(runs) >= 2 /\ runs[Len(runs)] = runs[Len(runs) - 1]) =>
          HoldsRunsOf(rows, SubSeq(runs, 1, Len(runs) - 1))

\* a longer document, then a shorter different one: stale rows remain
C10_Witness ==
    /\ Len(runs) = 2
    /\ runs[1] = [text |-> "p", units |-> 11]
    /\ runs[2] = [text |-> "q", units |-> 2]
    /\ rows["doc-1"].page_content = <<"q", 1>>
    /\ rows["doc-10"].page_content = <<"p", 10>>

=============================================================================
